---- MODULE Spec2Model ----
(***************************************************************************)
(* A model of the unsafe-trading matching engine: the order index, the     *)
(* orderbook of raw handles, the event log, and TradingEngine::try_insert  *)
(* and TradingEngine::remove, translated from core.rs and order/mod.rs.    *)
(***************************************************************************)
EXTENDS Integers, Sequences, FiniteSets, TLC

\* ------------------------------------------------------------------ bounds
MaxId == 3
MaxPrice == 2
MaxAmount == 2
MaxSubmissions == 3

\* ------------------------------------------------------------ scalar types
OrderIds == 1..MaxId
LimitPrices == 1..MaxPrice
Amounts == 1..MaxAmount

OrderKinds == {"Limit", "Market", "Stop", "Trailing"}
OrderSides == {"Ask", "Bid"}
OrderStatuses == {"Open", "Partial", "Completed", "Closed", "Cancelled"}

Opposite(side) == IF side = "Ask" THEN "Bid" ELSE "Ask"

\* Option<T>: None is the empty sequence, Some(x) the one-element sequence.
None == << >>
Some(x) == << x >>
IsSome(opt) == opt # << >>
Unwrap(opt) == opt[1]

SetMin(S) == CHOOSE x \in S : \A y \in S : x <= y
SetMax(S) == CHOOSE x \in S : \A y \in S : x >= y
MinOf(a, b) == IF a <= b THEN a ELSE b
MaxOf(a, b) == IF a >= b THEN a ELSE b

\* Amount is a u64.  A side aggregate that wrapped below zero is held as the
\* negative integer n standing for 2^64 + n, so + and - are those of u64.
AmountIsZero(a) == a = 0
AmountAdd(a, b) == a + b
AmountSub(a, b) == a - b
\* lhs < rhs in u64: the subtraction lhs - rhs overflows.
SubOverflows(a, b) == a >= 0 /\ a < b

\* ------------------------------------------------------------------ Order
OrderNew(id, kind, side, amount, limit_price) ==
    [id |-> id, initial_kind |-> kind, current_kind |-> kind, side |-> side,
     amount |-> amount, remaining |-> amount, limit_price |-> limit_price,
     status |-> "Open", created_at |-> 0]

\* Variant: Cancelled whatever was filled.
OrderCancel_AlwaysCancelled(o) == [o EXCEPT !.status = "Cancelled"]

OrderCancel(o) ==
    [o EXCEPT !.status = IF o.remaining = o.amount THEN "Cancelled" ELSE "Closed"]

\* Variant: only the first branch, an Ask receiver against a Bid.
MatchesWith_AskOnly(self, other) ==
    /\ self.side = "Ask" /\ other.side = "Bid"
    /\ self.limit_price <= other.limit_price

MatchesWith(self, other) ==
    IF self.side = "Ask" /\ other.side = "Bid"
    THEN self.limit_price <= other.limit_price
    ELSE IF self.side = "Bid" /\ other.side = "Ask"
    THEN self.limit_price >= other.limit_price
    ELSE FALSE

\* Variant: the whole of the caller's remaining, whatever the other order holds.
TradeAmount_SelfRemaining(self, other) == self.remaining

TradeAmount(self, other) == MinOf(self.remaining, other.remaining)

\* Variant: the caller's own limit instead of the extremum.
TradePrice_SelfLimit(self, other) == self.limit_price

TradePrice(self, other) ==
    IF self.side = "Ask"
    THEN MaxOf(self.limit_price, other.limit_price)
    ELSE MinOf(self.limit_price, other.limit_price)

\* Variant: the closure without its status assignment.
Fill_KeepStatus(o, amount) ==
    [o EXCEPT !.remaining = AmountSub(o.remaining, amount)]

\* The closure passed to Order::update inside Order::trade.
Fill(o, amount) ==
    LET r == AmountSub(o.remaining, amount)
    IN  [o EXCEPT !.remaining = r,
                  !.status = IF AmountIsZero(r) THEN "Completed" ELSE "Partial"]

MakeTrade(self, other, amount, price) ==
    [maker_id |-> self.id, taker_id |-> other.id, amount |-> amount,
     price |-> price, created_at |-> 0]

\* Order::trade: the two orders after the call and the Option<Trade> returned.
Trade(self, other) ==
    IF MatchesWith(self, other)
    THEN LET amount == TradeAmount(self, other)
             price == TradePrice(self, other)
         IN  [self |-> Fill(self, amount), other |-> Fill(other, amount),
              trade |-> Some(MakeTrade(self, other, amount, price))]
    ELSE [self |-> self, other |-> other, trade |-> None]


\* Variant: the ask's test with the comparison of the bid's.
AskMatchesWith_Ge(self, other) == self.limit_price >= other.limit_price

\* <AskOrder as Exchangeable>::matches_with.
AskMatchesWith(self, other) == self.limit_price <= other.limit_price

\* <AskOrder as Exchangeable>::trade, on the wrapped orders.
AskTrade(self, other) ==
    IF AskMatchesWith(self, other) THEN Trade(self, other)
    ELSE [self |-> self, other |-> other, trade |-> None]

\* <BidOrder as Exchangeable>::matches_with.
BidMatchesWith(self, other) == self.limit_price >= other.limit_price

\* <BidOrder as Exchangeable>::trade, on the wrapped orders.
BidTrade(self, other) ==
    IF BidMatchesWith(self, other) THEN Trade(self, other)
    ELSE [self |-> self, other |-> other, trade |-> None]

\* -------------------------------------------------------------- functions
Put(f, k, v) == [x \in DOMAIN f \cup {k} |-> IF x = k THEN v ELSE f[x]]
Drop(f, k) == [x \in DOMAIN f \ {k} |-> f[x]]
EmptyMap == [x \in {} |-> 0]

\* ------------------------------------------------------------------ state
VARIABLES
    orders,      \* TradingEngine.orders: OrderId -> pinned box [addr, order]
    orderbook,   \* TradingEngine.orderbook: [sides, ask_length, bid_length]
    events,      \* TradingEngine.events
    next_addr,   \* the allocator: address of the next Box::pin
    pc,          \* "idle", or the position inside try_insert; "panic" after an abort
    order,       \* try_insert's local `order` (the incoming order)
    top_order,   \* try_insert's local `top_order`: Option<Order> of the last pop
    trades,      \* the Trades returned by order.trade during the current call
    entry,       \* orders and orderbook as they were when the current call began
    result       \* return value of the last finished call

vars == << orders, orderbook, events, next_addr, pc, order, top_order, trades,
           entry, result >>

\* --------------------------------------------------------------- pointers
\* A NonNull<Order> is the address of a box; init is what Box::pin wrote there.
\* The engine never writes through a box it holds, so a live box still holds init.
MkPtr(addr, o) == [addr |-> addr, init |-> o]

IsLive(idx, ptr) == \E i \in DOMAIN idx : idx[i].addr = ptr.addr

\* What `unsafe { ptr.as_ref() }` can yield.  Through a live box: its order.
\* Through a freed box the read is undefined behaviour: the stale bytes, or
\* the order of any box the allocator has since placed there.
Deref(idx, ptr) ==
    IF IsLive(idx, ptr)
    THEN {idx[i].order : i \in {j \in DOMAIN idx : idx[j].addr = ptr.addr}}
    ELSE {ptr.init} \cup {idx[i].order : i \in DOMAIN idx}

\* -------------------------------------------------------------- Orderbook
OrderbookDefault ==
    [sides |-> [s \in OrderSides |-> EmptyMap], ask_length |-> 0, bid_length |-> 0]

\* Variant: an insert that leaves the aggregates alone.
AddLength_Skip(ob, side, remaining) == ob

AddLength(ob, side, remaining) ==
    IF side = "Ask"
    THEN [ob EXCEPT !.ask_length = AmountAdd(@, remaining)]
    ELSE [ob EXCEPT !.bid_length = AmountAdd(@, remaining)]

SubLength(ob, side, remaining) ==
    IF side = "Ask"
    THEN [ob EXCEPT !.ask_length = AmountSub(@, remaining)]
    ELSE [ob EXCEPT !.bid_length = AmountSub(@, remaining)]

SideLength(ob, side) == IF side = "Ask" THEN ob.ask_length ELSE ob.bid_length

\* Orderbook::insert(ptr), o being the order read through the (live) ptr.
OrderbookInsert(ob, ptr, o) ==
    LET levels == ob.sides[o.side]
        level == IF o.limit_price \in DOMAIN levels THEN levels[o.limit_price]
                 ELSE EmptyMap
        ob1 == AddLength(ob, o.side, o.remaining)
    IN  [ob1 EXCEPT !.sides[o.side] =
            Put(levels, o.limit_price, Put(level, o.id, ptr))]



\* Variant: a remove that never deletes a level.
OrderbookRemove_KeepLevel(ob, o) ==
    LET levels == ob.sides[o.side]
    IN  IF o.limit_price \notin DOMAIN levels
        THEN [ob |-> SubLength(ob, o.side, o.remaining), ptr |-> None,
              overflow |-> SubOverflows(SideLength(ob, o.side), o.remaining)]
        ELSE LET level == levels[o.limit_price]
             IN  [ob |-> [SubLength(ob, o.side, o.remaining)
                            EXCEPT !.sides[o.side] =
                               Put(levels, o.limit_price, Drop(level, o.id))],
                  ptr |-> IF o.id \in DOMAIN level THEN Some(level[o.id])
                          ELSE None,
                  overflow |-> SubOverflows(SideLength(ob, o.side), o.remaining)]

\* Variant: a remove that returns the handle and leaves it in its level.
OrderbookRemove_KeepHandle(ob, o) ==
    LET levels == ob.sides[o.side]
    IN  [ob |-> SubLength(ob, o.side, o.remaining),
         ptr |-> IF o.limit_price \in DOMAIN levels
                    /\ o.id \in DOMAIN levels[o.limit_price]
                 THEN Some(levels[o.limit_price][o.id]) ELSE None,
         overflow |-> SubOverflows(SideLength(ob, o.side), o.remaining)]

\* Orderbook::remove(&order): the book afterwards, the Option<NonNull<Order>>
\* returned, and whether the aggregate's `-=` overflowed.
OrderbookRemove(ob, o) ==
    LET ob1 == SubLength(ob, o.side, o.remaining)
        levels == ob.sides[o.side]
        overflow == SubOverflows(SideLength(ob, o.side), o.remaining)
    IN  IF o.limit_price \notin DOMAIN levels
        THEN [ob |-> ob1, ptr |-> None, overflow |-> overflow]
        ELSE LET level == levels[o.limit_price]
                 level1 == Drop(level, o.id)
                 levels1 == IF DOMAIN level1 = {}
                            THEN Drop(levels, o.limit_price)
                            ELSE Put(levels, o.limit_price, level1)
             IN  [ob |-> [ob1 EXCEPT !.sides[o.side] = levels1],
                  ptr |-> IF o.id \in DOMAIN level THEN Some(level[o.id]) ELSE None,
                  overflow |-> overflow]

\* Variant: the two iteration directions exchanged.
BestPrice_Swapped(levels, incoming_side) ==
    IF incoming_side = "Ask" THEN SetMin(DOMAIN levels) ELSE SetMax(DOMAIN levels)

\* The price level Orderbook::pop looks at: the last bid level for an incoming
\* Ask, the first ask level for an incoming Bid.
BestPrice(levels, incoming_side) ==
    IF incoming_side = "Ask" THEN SetMax(DOMAIN levels) ELSE SetMin(DOMAIN levels)

\* The first entry of a level's BTreeMap<OrderId, _>.
FirstOrderId(level) == SetMin(DOMAIN level)

\* Variant: a pop that looks at the incoming order's own side.
PopHandle_SameSide(ob, incoming) ==
    LET levels == ob.sides[incoming.side]
    IN  IF DOMAIN levels = {} THEN None
        ELSE LET level == levels[SetMin(DOMAIN levels)]
             IN  IF DOMAIN level = {} THEN None
                 ELSE Some(level[SetMin(DOMAIN level)])

\* The handle Orderbook::pop dereferences, None where one of its `?` returns.
PopHandle(ob, incoming) ==
    LET levels == ob.sides[Opposite(incoming.side)]
    IN  IF DOMAIN levels = {} THEN None
        ELSE LET level == levels[BestPrice(levels, incoming.side)]
             IN  IF DOMAIN level = {} THEN None
                 ELSE Some(level[FirstOrderId(level)])


\* Variant: the event with its two quantities exchanged.
PartiallyFilled_Swapped(id, previous_remaining, current_remaining) ==
    [type |-> "OrderPartiallyFilled", id |-> id,
     previous_remaining |-> current_remaining,
     current_remaining |-> previous_remaining]

\* Variant: the event with the current remaining in both fields.
PartiallyFilled_NoPrevious(id, previous_remaining, current_remaining) ==
    [type |-> "OrderPartiallyFilled", id |-> id,
     previous_remaining |-> current_remaining,
     current_remaining |-> current_remaining]

\* ---------------------------------------------------------- TradingEngine
Event(type, id) == [type |-> type, id |-> id]
PartiallyFilled(id, previous_remaining, current_remaining) ==
    [type |-> "OrderPartiallyFilled", id |-> id,
     previous_remaining |-> previous_remaining,
     current_remaining |-> current_remaining]

\* Variant: a lookup that hands the order out and keeps it indexed.
IndexRemove_Keep(idx, id) ==
    IF id \in DOMAIN idx
    THEN [orders |-> idx, ret |-> Some(idx[id].order)]
    ELSE [orders |-> idx, ret |-> None]

\* TradingEngine::remove(&order_id) on the index: the index afterwards and the
\* Option<Order> returned.
IndexRemove(idx, id) ==
    IF id \in DOMAIN idx
    THEN [orders |-> Drop(idx, id), ret |-> Some(idx[id].order)]
    ELSE [orders |-> idx, ret |-> None]



\* Variant: an insert that hands the box to the book without indexing it.
EngineInsert_BookOnly(idx, ob, addr, o) ==
    [orders |-> idx, orderbook |-> OrderbookInsert(ob, MkPtr(addr, o), o)]

\* TradingEngine::insert(order): box the order at a fresh address, index the
\* box under the order's id, hand the box's address to the book.
EngineInsert(idx, ob, addr, o) ==
    [orders |-> Put(idx, o.id, [addr |-> addr, order |-> o]),
     orderbook |-> OrderbookInsert(ob, MkPtr(addr, o), o)]

\* TradingEngine::pop_from_orderbook(&incoming): every outcome of
\* Orderbook::pop followed by the index removal of the id read through the
\* handle pop returned.
PopFromOrderbook(idx, ob, incoming) ==
    LET h == PopHandle(ob, incoming)
    IN  IF ~IsSome(h)
        THEN {[orders |-> idx, orderbook |-> ob, ret |-> None, overflow |-> FALSE]}
        ELSE UNION {
               LET r == OrderbookRemove(ob, c)
               IN  IF ~IsSome(r.ptr)
                   THEN {[orders |-> idx, orderbook |-> r.ob, ret |-> None,
                          overflow |-> r.overflow]}
                   ELSE LET ids == IF Unwrap(r.ptr) = Unwrap(h) THEN {c.id}
                                   ELSE {d.id : d \in Deref(idx, Unwrap(r.ptr))}
                        IN  {[orders |-> IndexRemove(idx, id).orders,
                              orderbook |-> r.ob,
                              ret |-> IndexRemove(idx, id).ret,
                              overflow |-> r.overflow] : id \in ids}
               : c \in Deref(idx, Unwrap(h)) }

NoOrder == OrderNew(0, "Limit", "Ask", 0, 0)
NoResult == << >>
Ok == << "Ok" >>
Err == << "Err" >>

\* The state one iteration of try_insert's `while let` leaves behind, given
\* the outcome p of pop_from_orderbook: the loop's position afterwards and
\* the engine fields and locals it wrote.
LoopBody(p, incoming, evs, addr) ==
    IF ~IsSome(p.ret)
    THEN [pc |-> "after", orders |-> p.orders, orderbook |-> p.orderbook,
          events |-> evs, next_addr |-> addr, order |-> incoming,
          top_order |-> None, trade |-> None]
    ELSE
    LET t == Trade(incoming, Unwrap(p.ret))
        inc == t.self
        top == t.other
        base == [pc |-> "loop", orders |-> p.orders, orderbook |-> p.orderbook,
                 events |-> evs, next_addr |-> addr, order |-> inc,
                 top_order |-> Some(top), trade |-> t.trade]
    IN  IF ~IsSome(t.trade) THEN base
        ELSE LET amount == Unwrap(t.trade).amount
                 pair == << inc.status, top.status >>
             IN  IF pair = << "Partial", "Completed" >>
                 THEN [base EXCEPT !.events = evs \o <<
                          PartiallyFilled(inc.id, AmountAdd(inc.remaining, amount),
                                          inc.remaining),
                          Event("OrderCompleted", top.id),
                          Event("OrderRemovedFromOrderbook", top.id) >>]
                 ELSE IF pair \in {<< "Open", "Open" >>, << "Open", "Partial" >>,
                                   << "Partial", "Partial" >>,
                                   << "Completed", "Partial" >>}
                 THEN LET ins == EngineInsert(p.orders, p.orderbook, addr, top)
                      IN  [base EXCEPT !.pc = "after",
                                       !.orders = ins.orders,
                                       !.orderbook = ins.orderbook,
                                       !.next_addr = addr + 1,
                                       !.events = evs \o <<
                          PartiallyFilled(top.id, AmountAdd(top.remaining, amount),
                                          top.remaining),
                          Event("OrderCompleted", inc.id) >>]
                 ELSE IF pair = << "Completed", "Completed" >>
                 THEN [base EXCEPT !.pc = "after", !.events = evs \o <<
                          Event("OrderCompleted", top.id),
                          Event("OrderRemovedFromOrderbook", top.id),
                          Event("OrderCompleted", inc.id) >>]
                 ELSE [base EXCEPT !.pc = "panic"]

\* An overflowing `-=` aborts a build with overflow checks and wraps in one
\* without: an abort leaves the engine as the iteration found it.
LoopOutcomes(idx, ob, incoming, evs, addr) ==
    UNION { {LoopBody(p, incoming, evs, addr)} \cup
            (IF p.overflow
             THEN {[pc |-> "panic", orders |-> idx, orderbook |-> ob,
                    events |-> evs, next_addr |-> addr, order |-> incoming,
                    top_order |-> None, trade |-> None]}
             ELSE {})
          : p \in PopFromOrderbook(idx, ob, incoming) }

NumReceived ==
    Cardinality({i \in DOMAIN events : events[i].type = "OrderReceived"})

\* Orders a caller can build: Order::new, the only public constructor.
NewOrders ==
    {OrderNew(i, k, s, a, p) :
        i \in OrderIds, k \in OrderKinds, s \in OrderSides, a \in Amounts,
        p \in LimitPrices}

Init ==
    /\ orders = EmptyMap
    /\ orderbook = OrderbookDefault
    /\ events = << >>
    /\ next_addr = 1
    /\ pc = "idle"
    /\ order = NoOrder
    /\ top_order = None
    /\ trades = << >>
    /\ entry = None
    /\ result = NoResult

\* Variant: a lookup that never finds the id.
IsIndexed_Never(idx, id) == FALSE

\* TradingEngine::get(&order_id).is_some().
IsIndexed(idx, id) == id \in DOMAIN idx

\* try_insert up to the loop: the duplicate check and OrderReceived.
TryInsertBegin(o) ==
    /\ pc = "idle"
    /\ NumReceived < MaxSubmissions
    /\ IF IsIndexed(orders, o.id)
       THEN /\ result' = Err
            /\ UNCHANGED << orders, orderbook, events, next_addr, pc, order,
                            top_order, trades, entry >>
       ELSE /\ events' = Append(events, Event("OrderReceived", o.id))
            /\ pc' = "loop"
            /\ order' = o
            /\ entry' = Some([orders |-> orders, orderbook |-> orderbook,
                               events |-> events])
            /\ result' = NoResult
            /\ UNCHANGED << orders, orderbook, next_addr, top_order, trades >>

\* One iteration of `while let Some(mut top_order) = self.pop_from_orderbook(&order)`.
TryInsertLoop ==
    /\ pc = "loop"
    /\ \E n \in LoopOutcomes(orders, orderbook, order, events, next_addr) :
          /\ pc' = n.pc
          /\ orders' = n.orders
          /\ orderbook' = n.orderbook
          /\ events' = n.events
          /\ next_addr' = n.next_addr
          /\ order' = n.order
          /\ top_order' = n.top_order
          /\ trades' = IF IsSome(n.trade) THEN Append(trades, Unwrap(n.trade))
                       ELSE trades
    /\ UNCHANGED << entry, result >>

\* Variant: the test without the kind.
ShouldRest_AnyKind(o) == o.status # "Completed"

\* The test that decides whether the incoming order rests in the book.
ShouldRest(o) == o.status # "Completed" /\ o.current_kind = "Limit"

\* try_insert after the loop: the residual insertion and the closing event.
TryInsertEnd ==
    /\ pc = "after"
    /\ IF ShouldRest(order)
       THEN LET ins == EngineInsert(orders, orderbook, next_addr, order)
            IN  /\ events' = Append(events, Event("OrderAddedToOrderbook", order.id))
                /\ orders' = ins.orders
                /\ orderbook' = ins.orderbook
                /\ next_addr' = next_addr + 1
       ELSE /\ events' = Append(events,
                   Event("OrderReceivedCompletedBeforeEnterInOrderbook", order.id))
            /\ UNCHANGED << orders, orderbook, next_addr >>
    /\ pc' = "return"
    /\ UNCHANGED << order, top_order, trades, entry, result >>

\* try_insert's `Ok(())`: the call returns and its locals are gone.
TryInsertReturn ==
    /\ pc = "return"
    /\ pc' = "idle"
    /\ result' = Ok
    /\ order' = NoOrder
    /\ top_order' = None
    /\ trades' = << >>
    /\ entry' = None
    /\ UNCHANGED << orders, orderbook, events, next_addr >>

\* TradingEngine::remove(&order_id).
Remove(id) ==
    /\ pc = "idle"
    /\ LET r == IndexRemove(orders, id)
       IN  /\ orders' = r.orders
           /\ result' = << "Removed", r.ret >>
    /\ UNCHANGED << orderbook, events, next_addr, pc, order, top_order, trades,
                    entry >>

Next ==
    \/ \E o \in NewOrders : TryInsertBegin(o)
    \/ TryInsertLoop
    \/ TryInsertEnd
    \/ TryInsertReturn

Spec == Init /\ [][Next]_vars

NextRemove ==
    \/ Next
    \/ \E id \in OrderIds : Remove(id)

SpecRemove == Init /\ [][NextRemove]_vars

\* Submissions of any amount a caller can pass to Order::new, zero included.
AnyOrders ==
    {OrderNew(i, k, s, a, p) :
        i \in OrderIds, k \in OrderKinds, s \in OrderSides, a \in 0..MaxAmount,
        p \in LimitPrices}

NextAny ==
    \/ \E o \in AnyOrders : TryInsertBegin(o)
    \/ TryInsertLoop
    \/ TryInsertEnd
    \/ TryInsertReturn

SpecAny == Init /\ [][NextAny]_vars

\* ------------------------------------------------- Order, called directly
\* Two orders built by Order::new and then driven through Order::cancel and
\* Order::trade in any sequence, either order being the receiver. `order` and
\* `top_order` hold the two orders, `entry` the receiver and the argument as
\* they were before the last call, `result` what the call returned.
InitOrder ==
    /\ orders = EmptyMap
    /\ orderbook = OrderbookDefault
    /\ events = << >>
    /\ next_addr = 1
    /\ pc = "new"
    /\ order \in NewOrders
    /\ top_order \in {Some(o) : o \in NewOrders}
    /\ trades = << >>
    /\ entry = None
    /\ result = NoResult

OrderPcs ==
    {"new", "cancel", "cancel_rev", "trade", "trade_rev", "ask_trade",
     "bid_trade"}

\* receiver.cancel(), the receiver being `order` or (rev) `top_order`.
CancelCall(rev) ==
    /\ pc \in OrderPcs
    /\ LET self == IF rev THEN Unwrap(top_order) ELSE order
           other == IF rev THEN order ELSE Unwrap(top_order)
           c == OrderCancel(self)
       IN  /\ entry' = Some([self |-> self, other |-> other])
           /\ order' = IF rev THEN other ELSE c
           /\ top_order' = Some(IF rev THEN c ELSE other)
    /\ pc' = IF rev THEN "cancel_rev" ELSE "cancel"
    /\ result' = << "Unit" >>
    /\ UNCHANGED << orders, orderbook, events, next_addr, trades >>

\* receiver.trade(&mut argument), the receiver being `order` or (rev)
\* `top_order`.
TradeCall(rev) ==
    /\ pc \in OrderPcs
    /\ LET self == IF rev THEN Unwrap(top_order) ELSE order
           other == IF rev THEN order ELSE Unwrap(top_order)
           t == Trade(self, other)
       IN  /\ entry' = Some([self |-> self, other |-> other])
           /\ order' = IF rev THEN t.other ELSE t.self
           /\ top_order' = Some(IF rev THEN t.self ELSE t.other)
           /\ result' = << "Trade", t.trade >>
    /\ pc' = IF rev THEN "trade_rev" ELSE "trade"
    /\ UNCHANGED << orders, orderbook, events, next_addr, trades >>

\* AskOrder::from(order).trade(&mut BidOrder::from(top_order)): From<Order>
\* wraps an order of either side.
AskTradeCall ==
    /\ pc \in OrderPcs
    /\ LET t == AskTrade(order, Unwrap(top_order))
       IN  /\ entry' = Some([self |-> order, other |-> Unwrap(top_order)])
           /\ order' = t.self
           /\ top_order' = Some(t.other)
           /\ result' = << "Trade", t.trade >>
    /\ pc' = "ask_trade"
    /\ UNCHANGED << orders, orderbook, events, next_addr, trades >>

\* BidOrder::from(order).trade(&mut AskOrder::from(top_order)).
BidTradeCall ==
    /\ pc \in OrderPcs
    /\ LET t == BidTrade(order, Unwrap(top_order))
       IN  /\ entry' = Some([self |-> order, other |-> Unwrap(top_order)])
           /\ order' = t.self
           /\ top_order' = Some(t.other)
           /\ result' = << "Trade", t.trade >>
    /\ pc' = "bid_trade"
    /\ UNCHANGED << orders, orderbook, events, next_addr, trades >>

NextOrder ==
    \/ \E rev \in BOOLEAN : CancelCall(rev)
    \/ \E rev \in BOOLEAN : TradeCall(rev)
    \/ AskTradeCall
    \/ BidTradeCall

SpecOrder == InitOrder /\ [][NextOrder]_vars

\* ============================================================= properties
\* Every (side, price, id, handle) the book holds.
BookEntries(ob) ==
    UNION { UNION { {[side |-> s, price |-> p, id |-> i, ptr |-> ob.sides[s][p][i]]
                     : i \in DOMAIN ob.sides[s][p]}
                    : p \in DOMAIN ob.sides[s]}
            : s \in OrderSides }

\* The order a handle resolves to (the one order behind a live handle).
Resolve(idx, ptr) == CHOOSE o \in Deref(idx, ptr) : TRUE

RECURSIVE SumRemaining(_, _)
SumRemaining(idx, E) ==
    IF E = {} THEN 0
    ELSE LET e == CHOOSE x \in E : TRUE
         IN  Resolve(idx, e.ptr).remaining + SumRemaining(idx, E \ {e})

RECURSIVE SumAmounts(_)
SumAmounts(ts) ==
    IF ts = << >> THEN 0 ELSE Head(ts).amount + SumAmounts(Tail(ts))

\* An opposite-side order whose price is within the incoming order's limit.
Crosses(incoming, o) ==
    /\ o.side = Opposite(incoming.side)
    /\ IF incoming.side = "Bid" THEN o.limit_price <= incoming.limit_price
       ELSE o.limit_price >= incoming.limit_price

\* The receiver and the argument of the last direct call on an Order, after it
\* and (Before) as they were when it was made.
Receiver == IF pc \in {"cancel_rev", "trade_rev"} THEN Unwrap(top_order) ELSE order
Argument == IF pc \in {"cancel_rev", "trade_rev"} THEN order ELSE Unwrap(top_order)
ReceiverBefore == Unwrap(entry).self
ArgumentBefore == Unwrap(entry).other


\* The ids resting on the side opposite to `side`.
OppositeIds(ob, side) ==
    {e.id : e \in {x \in BookEntries(ob) : x.side = Opposite(side)}}

InCall == pc \in {"loop", "after", "return"}
EntryState == Unwrap(entry)
EntryOpposite ==
    {e \in BookEntries(EntryState.orderbook) : e.side = Opposite(order.side)}

\* The last pop returned an order and order.trade returned a Trade for it.
TradedWithTop ==
    /\ InCall
    /\ IsSome(top_order)
    /\ trades # << >>
    /\ Unwrap(top_order).id \in
          {trades[Len(trades)].maker_id, trades[Len(trades)].taker_id}

\* Position of the event that put order id into the book.
Arrival(id) ==
    SetMax({0} \cup {i \in DOMAIN events :
                 events[i] = Event("OrderAddedToOrderbook", id)})

\* C1: when no opposite-side order resting at entry crosses the incoming
\* order's limit, try_insert trades nothing and leaves every order that was
\* resting at entry in the index and in the book, unchanged.
C1_NoCrossLeavesRestingOrders ==
    (/\ pc = "return"
     /\ EntryOpposite # {}
     /\ \A e \in EntryOpposite :
           ~Crosses(order, Resolve(EntryState.orders, e.ptr)))
    => /\ trades = << >>
       /\ \A i \in DOMAIN EntryState.orders :
             i \in DOMAIN orders /\ orders[i] = EntryState.orders[i]
       /\ BookEntries(EntryState.orderbook) \subseteq BookEntries(orderbook)

\* C2: an order that try_insert has just traded with arrived in the book
\* before every other order still resting at its side and price.
C2_ArrivalOrderPriority ==
    TradedWithTop =>
       LET top == Unwrap(top_order)
       IN  \A e \in BookEntries(orderbook) :
              (e.side = top.side /\ e.price = top.limit_price /\ e.id # top.id)
              => Arrival(top.id) < Arrival(e.id)

\* C3: every trade of the current try_insert call is priced at the limit
\* price of the resting order, the `other` argument of Order::trade.
C3_TradeAtRestingPrice ==
    InCall =>
       \A i \in DOMAIN trades :
          /\ trades[i].taker_id \in DOMAIN EntryState.orders
          /\ trades[i].price =
                EntryState.orders[trades[i].taker_id].order.limit_price

C3_Witness ==
    /\ TradedWithTop
    /\ order.side = "Ask"
    /\ Unwrap(top_order).limit_price # order.limit_price

\* C4: when try_insert of a Limit order has run, the amounts it traded sum
\* to min(amount, remaining of the crossing orders resting at entry), its
\* remaining is amount minus that sum, and a positive remainder rests on its
\* side at its limit price, Partial if anything traded and Open otherwise.
C4_TradedQuantity ==
    (pc = "return" /\ order.current_kind = "Limit") =>
       LET traded == SumAmounts(trades)
           crossing == {e \in EntryOpposite :
                           Crosses(order, Resolve(EntryState.orders, e.ptr))}
           available == SumRemaining(EntryState.orders, crossing)
       IN  /\ traded = MinOf(order.amount, available)
           /\ order.remaining = order.amount - traded
           /\ order.remaining > 0 =>
                 /\ order.id \in DOMAIN orders
                 /\ orders[order.id].order = order
                 /\ order.status = IF traded > 0 THEN "Partial" ELSE "Open"
                 /\ \E e \in BookEntries(orderbook) :
                       /\ e.side = order.side
                       /\ e.price = order.limit_price
                       /\ e.id = order.id
                       /\ e.ptr.addr = orders[order.id].addr

C4_Witness ==
    /\ pc = "return"
    /\ order.current_kind = "Limit"
    /\ Len(trades) >= 1
    /\ order.remaining > 0
    /\ \E e \in EntryOpposite : ~Crosses(order, Resolve(EntryState.orders, e.ptr))

\* C5: every trade of the current try_insert call names the resting order
\* as maker and the incoming order as taker.
C5_MakerIsResting ==
    TradedWithTop =>
       /\ trades[Len(trades)].maker_id = Unwrap(top_order).id
       /\ trades[Len(trades)].taker_id = order.id

\* C6: the order try_insert has just taken out of the book is on the
\* opposite side and no level left on that side has a strictly better price
\* (lower for asks, higher for bids).
C6_PopTakesBestPrice ==
    (pc \in {"loop", "after"} /\ IsSome(top_order)) =>
       LET top == Unwrap(top_order)
       IN  /\ top.side = Opposite(order.side)
           /\ \A p \in DOMAIN orderbook.sides[top.side] :
                 IF top.side = "Ask" THEN top.limit_price <= p
                 ELSE top.limit_price >= p

C6_Witness ==
    /\ pc = "loop"
    /\ IsSome(top_order)
    /\ \E p \in DOMAIN orderbook.sides[Unwrap(top_order).side] :
          p # Unwrap(top_order).limit_price

\* C7: between engine operations each side aggregate equals the sum of
\* remaining over the orders the book references on that side.
C7_AggregatesMatchBook ==
    pc = "idle" =>
       /\ orderbook.ask_length =
             SumRemaining(orders, {e \in BookEntries(orderbook) : e.side = "Ask"})
       /\ orderbook.bid_length =
             SumRemaining(orders, {e \in BookEntries(orderbook) : e.side = "Bid"})

C7_Witness ==
    /\ pc = "idle"
    /\ orderbook.ask_length >= 2
    /\ \E i \in DOMAIN orders : orders[i].order.status = "Partial"
    /\ Cardinality(BookEntries(orderbook)) >= 2

\* C8: every order in the index has remaining <= amount, is Completed
\* exactly when remaining is 0 and Open exactly when remaining equals amount.
C8_IndexedOrdersConsistent ==
    \A i \in DOMAIN orders :
       LET o == orders[i].order
       IN  /\ o.remaining <= o.amount
           /\ o.status = "Completed" <=> o.remaining = 0
           /\ o.status = "Open" <=> o.remaining = o.amount

C8_Witness ==
    /\ pc = "idle"
    /\ result # NoResult /\ result[1] = "Removed" /\ IsSome(result[2])
    /\ \E i \in DOMAIN orders : orders[i].order.status = "Partial"

\* C9: every order the book references is Open or Partial and of kind Limit.
C9_BookHoldsLiveLimitOrders ==
    \A e \in BookEntries(orderbook) :
       LET o == Resolve(orders, e.ptr)
       IN  o.status \in {"Open", "Partial"} /\ o.current_kind = "Limit"

C9_Witness ==
    /\ pc = "return"
    /\ order.current_kind # "Limit"
    /\ order.status # "Completed"
    /\ order.id \notin DOMAIN orders
    /\ \E e \in BookEntries(orderbook) :
          Resolve(orders, e.ptr).status = "Partial"

\* C10: every handle in the book resolves to an order of the index whose
\* side and limit price are the handle's place in the book.
C10_HandlesResolve ==
    \A e \in BookEntries(orderbook) :
       /\ e.id \in DOMAIN orders
       /\ orders[e.id].addr = e.ptr.addr
       /\ orders[e.id].order.side = e.side
       /\ orders[e.id].order.limit_price = e.price

\* C11: try_insert returns an error exactly when the submitted id is already
\* in the index; a fresh id is accepted and logged as received; on the error
\* the index, the book with its aggregates and the event log are unchanged.
C11_DuplicateIdRejected ==
    [][\A o \in NewOrders :
          TryInsertBegin(o) =>
             /\ (result' = Err) <=> (o.id \in DOMAIN orders)
             /\ result' = Err =>
                   /\ orders' = orders
                   /\ orderbook' = orderbook
                   /\ events' = events
             /\ result' # Err =>
                   /\ pc' = "loop"
                   /\ events' = Append(events, Event("OrderReceived", o.id))
                   /\ orders' = orders]_vars

C11_Witness ==
    /\ pc = "idle"
    /\ result = Err
    /\ BookEntries(orderbook) # {}

\* C12: try_insert rejects with an error any order whose amount is 0 or whose
\* remaining differs from its amount, and leaves index, book and event log
\* unchanged.
C12_InvalidOrderRejected ==
    [][\A o \in AnyOrders :
          (TryInsertBegin(o) /\ (o.amount = 0 \/ o.remaining # o.amount)) =>
             /\ result' = Err
             /\ orders' = orders
             /\ orderbook' = orderbook
             /\ events' = events]_vars

\* C13: try_insert rejects with an error any order whose current kind is not
\* Limit; such an order is never matched and changes no state.
C13_UnsupportedKindRejected ==
    [][\A o \in NewOrders :
          (TryInsertBegin(o) /\ o.current_kind # "Limit") =>
             /\ result' = Err
             /\ orders' = orders
             /\ orderbook' = orderbook
             /\ events' = events]_vars

\* C14: TradingEngine::remove of a resting order takes its handle out of the
\* book and lowers its side's aggregate by its remaining, the other side being
\* left alone; removing the only resting order leaves no price level and both
\* aggregates at 0.
C14_RemoveClearsBook ==
    [][\A id \in OrderIds :
          (/\ Remove(id)
           /\ id \in DOMAIN orders
           /\ \E e \in BookEntries(orderbook) :
                 e.id = id /\ e.ptr.addr = orders[id].addr) =>
             LET o == orders[id].order
             IN  /\ \A e \in BookEntries(orderbook') : e.id # id
                 /\ SideLength(orderbook', o.side) =
                       SideLength(orderbook, o.side) - o.remaining
                 /\ SideLength(orderbook', Opposite(o.side)) =
                       SideLength(orderbook, Opposite(o.side))
                 /\ Cardinality(BookEntries(orderbook)) = 1 =>
                       orderbook' = OrderbookDefault]_vars

\* C15: remove(id) of an indexed id returns Some(order) carrying that id and
\* leaves the id out of the index, so that a second remove(id) finds it absent;
\* remove of an absent id returns None and changes neither the index, the book
\* nor the event log.
C15_RemoveIdempotent ==
    [][\A id \in OrderIds :
          Remove(id) =>
             IF id \in DOMAIN orders
             THEN /\ IsSome(result'[2])
                  /\ Unwrap(result'[2]).id = id
                  /\ id \notin DOMAIN orders'
             ELSE /\ result'[2] = None
                  /\ orders' = orders
                  /\ orderbook' = orderbook
                  /\ events' = events]_vars

C15_Witness ==
    /\ pc = "idle"
    /\ result = << "Removed", None >>
    /\ orders = EmptyMap
    /\ Cardinality(BookEntries(orderbook)) = 1
    /\ Len(events) = 2

\* C16: at the return of a successful try_insert the event log is the log at
\* entry followed by one block: OrderReceived{id} first, one terminal event
\* for the incoming id last, no terminal event in between. The terminal event
\* is OrderAddedToOrderbook when the incoming order is not Completed and is a
\* Limit order, and the order is then in the index and the book; otherwise it
\* is OrderReceivedCompletedBeforeEnterInOrderbook and the order is in neither.
C16_EventBlock ==
    pc = "return" =>
       LET n == Len(EntryState.events)
           m == Len(events)
           rests == order.status # "Completed" /\ order.current_kind = "Limit"
           terminals == {"OrderAddedToOrderbook",
                         "OrderReceivedCompletedBeforeEnterInOrderbook"}
       IN  /\ m >= n + 2
           /\ SubSeq(events, 1, n) = EntryState.events
           /\ events[n + 1] = Event("OrderReceived", order.id)
           /\ events[m] =
                 IF rests THEN Event("OrderAddedToOrderbook", order.id)
                 ELSE Event("OrderReceivedCompletedBeforeEnterInOrderbook",
                            order.id)
           /\ \A i \in (n + 1)..(m - 1) : events[i].type \notin terminals
           /\ rests =>
                 /\ order.id \in DOMAIN orders
                 /\ orders[order.id].order = order
                 /\ \E e \in BookEntries(orderbook) :
                       /\ e.id = order.id
                       /\ e.side = order.side
                       /\ e.price = order.limit_price
                       /\ e.ptr.addr = orders[order.id].addr
           /\ ~rests =>
                 /\ order.id \notin DOMAIN orders
                 /\ \A e \in BookEntries(orderbook) : e.id # order.id

C16_Witness ==
    /\ pc = "return"
    /\ trades # << >>
    /\ Len(EntryState.events) > 0
    /\ Len(events) >= Len(EntryState.events) + 4
    /\ events[Len(events)] = Event("OrderAddedToOrderbook", order.id)

\* C17: Order::cancel sets the status to Cancelled when remaining equals
\* amount and to Closed otherwise, and changes no other field of the order
\* (nor anything of the other order).
C17_CancelSetsStatus ==
    pc \in {"cancel", "cancel_rev"} =>
       /\ Receiver.status =
             IF ReceiverBefore.remaining = ReceiverBefore.amount
             THEN "Cancelled" ELSE "Closed"
       /\ \A f \in DOMAIN ReceiverBefore \ {"status"} :
             Receiver[f] = ReceiverBefore[f]
       /\ Argument = ArgumentBefore

C17_Witness ==
    /\ pc = "cancel"
    /\ ReceiverBefore.status = "Partial"
    /\ Receiver.status = "Closed"

\* C18: Order::trade returns a Trade exactly when the two orders are on
\* opposite sides and the ask's limit is at most the bid's limit, which is
\* what matches_with answers whichever of the two is the receiver; otherwise
\* it returns None and leaves both orders as they were.
C18_TradeIffMatches ==
    pc \in {"trade", "trade_rev"} =>
       LET a == ReceiverBefore
           b == ArgumentBefore
           crossing ==
              \/ a.side = "Ask" /\ b.side = "Bid" /\ a.limit_price <= b.limit_price
              \/ a.side = "Bid" /\ b.side = "Ask" /\ b.limit_price <= a.limit_price
       IN  /\ IsSome(result[2]) <=> crossing
           /\ MatchesWith(a, b) <=> crossing
           /\ MatchesWith(b, a) <=> crossing
           /\ ~crossing => Receiver = a /\ Argument = b

C18_Witness ==
    /\ pc = "trade"
    /\ IsSome(result[2])
    /\ ReceiverBefore.side = "Bid"
    /\ ReceiverBefore.limit_price > ArgumentBefore.limit_price

\* C19: when Order::trade returns a Trade its amount is the smaller of the two
\* remaining quantities before the call, both remaining quantities are lowered
\* by it, each order is Completed if its remaining is now 0 and Partial
\* otherwise, and at least one of the two is Completed, whichever is the
\* receiver.
C19_TradeFills ==
    (pc \in {"trade", "trade_rev"} /\ IsSome(result[2])) =>
       LET a == ReceiverBefore
           b == ArgumentBefore
           amount == IF a.remaining <= b.remaining THEN a.remaining
                     ELSE b.remaining
       IN  /\ Unwrap(result[2]).amount = amount
           /\ Receiver.remaining = a.remaining - amount
           /\ Argument.remaining = b.remaining - amount
           /\ Receiver.status =
                 IF Receiver.remaining = 0 THEN "Completed" ELSE "Partial"
           /\ Argument.status =
                 IF Argument.remaining = 0 THEN "Completed" ELSE "Partial"
           /\ Receiver.status = "Completed" \/ Argument.status = "Completed"

C19_Witness ==
    /\ pc = "trade_rev"
    /\ IsSome(result[2])
    /\ ReceiverBefore.status = "Open"
    /\ Receiver.status = "Partial"
    /\ Argument.status = "Completed"
    /\ Unwrap(result[2]).amount > 0

\* C20: throughout a try_insert call every order that was resting at entry on
\* the incoming order's own side keeps its entry in the index and its handle
\* in the book, with the remaining and status it had, and is in no trade of
\* the call; when only that side was populated and the incoming order is a
\* Limit order, the incoming order rests next to them.
C20_SameSideUntouched ==
    InCall =>
       LET same == {e \in BookEntries(EntryState.orderbook) :
                       e.side = order.side}
       IN  /\ \A e \in same :
                 /\ e \in BookEntries(orderbook)
                 /\ e.id \in DOMAIN orders
                 /\ orders[e.id] = EntryState.orders[e.id]
                 /\ \A i \in DOMAIN trades :
                       e.id \notin {trades[i].maker_id, trades[i].taker_id}
           /\ (pc = "return" /\ same # {} /\ EntryOpposite = {}
                 /\ order.current_kind = "Limit") =>
                 /\ trades = << >>
                 /\ order.id \in DOMAIN orders
                 /\ \E e \in BookEntries(orderbook) :
                       e.id = order.id /\ e.side = order.side

C20_Witness ==
    /\ pc = "return"
    /\ order.id \in DOMAIN orders
    /\ \E e \in BookEntries(EntryState.orderbook) :
          /\ e.side = order.side
          /\ e.id # order.id
          /\ e \in BookEntries(orderbook)
          /\ orders[e.id].order.status = "Partial"

\* C21: right after a loop iteration whose trade brought the resting order's
\* remaining to 0, the log ends with OrderCompleted{resting} immediately
\* followed by OrderRemovedFromOrderbook{resting}, preceded by
\* OrderPartiallyFilled{incoming, current + traded, current} with the loop
\* going on when the incoming order is still Partial, and followed by
\* OrderCompleted{incoming} with the loop over when the incoming order
\* completed too; the resting order is in neither the index nor the book.
C21_RestingCompletedEvents ==
    (/\ pc \in {"loop", "after"}
     /\ TradedWithTop
     /\ Unwrap(top_order).remaining = 0) =>
       LET top == Unwrap(top_order)
           m == Len(events)
           traded == trades[Len(trades)].amount
           completed == [type |-> "OrderCompleted", id |-> top.id]
           removed == [type |-> "OrderRemovedFromOrderbook", id |-> top.id]
       IN  /\ m >= Len(EntryState.events) + 4
           /\ top.id \notin DOMAIN orders
           /\ \A e \in BookEntries(orderbook) : e.id # top.id
           /\ IF order.status = "Partial"
              THEN /\ events[m - 2] =
                         [type |-> "OrderPartiallyFilled", id |-> order.id,
                          previous_remaining |-> order.remaining + traded,
                          current_remaining |-> order.remaining]
                   /\ events[m - 1] = completed
                   /\ events[m] = removed
                   /\ pc = "loop"
              ELSE /\ order.status = "Completed"
                   /\ events[m - 2] = completed
                   /\ events[m - 1] = removed
                   /\ events[m] = [type |-> "OrderCompleted", id |-> order.id]
                   /\ pc = "after"

C21_Witness ==
    /\ pc = "loop"
    /\ TradedWithTop
    /\ Unwrap(top_order).remaining = 0
    /\ order.status = "Partial"
    /\ Len(trades) = 1

C23_PartialFillKeepsPriority ==
    pc = "idle" =>
       \A e \in BookEntries(orderbook) :
          (/\ Resolve(orders, e.ptr).status = "Partial"
           /\ \E i \in DOMAIN events :
                 /\ i > Arrival(e.id)
                 /\ events[i].type = "OrderPartiallyFilled"
                 /\ events[i].id = e.id)
          => FirstOrderId(orderbook.sides[e.side][e.price]) = e.id

\* C24: no Amount subtraction of a try_insert call underflows: every pop finds
\* the side aggregate at least the remaining of the order it removes, every
\* trade leaves both remaining quantities and both aggregates at 0 or more,
\* and no call aborts.
C24_NoUnderflow ==
    /\ pc # "panic"
    /\ orderbook.ask_length >= 0
    /\ orderbook.bid_length >= 0
    /\ InCall =>
          /\ order.remaining >= 0
          /\ IsSome(top_order) => Unwrap(top_order).remaining >= 0
          /\ \A i \in DOMAIN trades : trades[i].amount >= 0
    /\ pc = "loop" =>
          \A p \in PopFromOrderbook(orders, orderbook, order) :
             /\ ~p.overflow
             /\ IsSome(p.ret) =>
                   LET t == Trade(order, Unwrap(p.ret))
                   IN  IsSome(t.trade) =>
                          /\ Unwrap(t.trade).amount <= order.remaining
                          /\ Unwrap(t.trade).amount <= Unwrap(p.ret).remaining

C24_Witness ==
    /\ pc = "loop"
    /\ TradedWithTop
    /\ Len(trades) = 1
    /\ \E p \in PopFromOrderbook(orders, orderbook, order) :
          /\ IsSome(p.ret)
          /\ IsSome(Trade(order, Unwrap(p.ret)).trade)
          /\ Unwrap(p.ret).remaining > order.remaining

\* C25: over try_insert sequences the ids stored in the index are the ids the
\* book references, and each is referenced exactly once, by the handle of its
\* box, at its own side and at the price level of its limit price.
C25_IndexMatchesBook ==
    pc \in {"idle", "loop", "after", "return"} =>
       /\ {e.id : e \in BookEntries(orderbook)} = DOMAIN orders
       /\ \A id \in DOMAIN orders :
             LET refs == {e \in BookEntries(orderbook) : e.id = id}
             IN  /\ Cardinality(refs) = 1
                 /\ \A e \in refs :
                       /\ e.side = orders[id].order.side
                       /\ e.price = orders[id].order.limit_price
                       /\ e.ptr.addr = orders[id].addr

C25_Witness ==
    /\ pc = "idle"
    /\ Cardinality(DOMAIN orders) = 2
    /\ \E id \in DOMAIN orders : orders[id].order.status = "Partial"
    /\ \E e1, e2 \in BookEntries(orderbook) : e1.price # e2.price

\* C27: a try_insert call terminates: at the head of the loop a step is always
\* possible, it leads to the next iteration or out of the loop, the opposite
\* side never gains an order, and a step that stays in the loop has taken one
\* order out of the opposite side; the orders resting there are among those of
\* the entry state, so the iterations are at most as many as these.
C27_LoopTerminates ==
    [][pc = "loop" =>
          /\ LoopOutcomes(orders, orderbook, order, events, next_addr) # {}
          /\ pc' \in {"loop", "after"}
          /\ OppositeIds(orderbook, order.side) \subseteq
                {e.id : e \in EntryOpposite}
          /\ OppositeIds(orderbook', order.side) \subseteq
                OppositeIds(orderbook, order.side)
          /\ pc' = "loop" =>
                Cardinality(OppositeIds(orderbook', order.side)) =
                   Cardinality(OppositeIds(orderbook, order.side)) - 1]_vars

C27_Witness ==
    /\ pc = "return"
    /\ Cardinality(EntryOpposite) = 2
    /\ OppositeIds(orderbook, order.side) = {}
    /\ Len(trades) = 1

\* C28: every price level present on either side of the book holds at least
\* one order, so that Orderbook::pop finds an order whenever the side it looks
\* at has a level.
C28_NoEmptyLevel ==
    /\ \A s \in OrderSides :
          \A p \in DOMAIN orderbook.sides[s] :
             DOMAIN orderbook.sides[s][p] # {}
    /\ pc = "loop" =>
          (DOMAIN orderbook.sides[Opposite(order.side)] # {}
             => IsSome(PopHandle(orderbook, order)))

C28_Witness ==
    /\ pc = "loop"
    /\ IsSome(top_order)
    /\ Unwrap(top_order).limit_price \notin
          DOMAIN orderbook.sides[Unwrap(top_order).side]
    /\ DOMAIN orderbook.sides[Unwrap(top_order).side] # {}

\* C29: for an ask-side order a and a bid-side order b, AskOrder(a).trade on
\* BidOrder(b) returns what a.trade(b) returns and leaves both orders as
\* a.trade(b) leaves them, and BidOrder(b).trade on AskOrder(a) does so with
\* respect to b.trade(a).
C29_WrappersAgree ==
    /\ (/\ pc = "ask_trade"
        /\ ReceiverBefore.side = "Ask"
        /\ ArgumentBefore.side = "Bid") =>
          LET g == Trade(ReceiverBefore, ArgumentBefore)
          IN  /\ result[2] = g.trade
              /\ Receiver = g.self
              /\ Argument = g.other
    /\ (/\ pc = "bid_trade"
        /\ ReceiverBefore.side = "Bid"
        /\ ArgumentBefore.side = "Ask") =>
          LET g == Trade(ReceiverBefore, ArgumentBefore)
          IN  /\ result[2] = g.trade
              /\ Receiver = g.self
              /\ Argument = g.other

C29_Witness ==
    /\ pc = "ask_trade"
    /\ ReceiverBefore.side = "Ask"
    /\ ArgumentBefore.side = "Bid"
    /\ ReceiverBefore.limit_price < ArgumentBefore.limit_price
    /\ IsSome(result[2])
    /\ Unwrap(result[2]).price = ArgumentBefore.limit_price
    /\ Receiver.status = "Partial"

====
